---- MODULE Spec2Model ----
(***************************************************************************)
(* A model of pyo3-macros-backend/src/pyclass.rs: the #[pyclass] argument  *)
(* parser (PyClassArgs), the field descriptor extractor                    *)
(* (parse_descriptors), the binding generator (build_py_class, impl_class, *)
(* impl_descriptors) and the run-time behaviour of the code impl_class     *)
(* emits (get_free_list, type_object_raw, for_each_method_def,             *)
(* for_each_proto_slot).                                                   *)
(***************************************************************************)
EXTENDS Integers, Sequences, FiniteSets, TLC

VARIABLES
    vars,        \* parse: the Punctuated<Expr, ,> argument list
    idx,         \* parse: position of the `for expr in vars` loop
    slf,         \* parse: the PyClassArgs being built (`slf`)
    res,         \* parse: the syn::Result of PyClassArgs::parse
    class,       \* build_py_class: the syn::ItemStruct (mutated in place)
    decl,        \* build_py_class: the ItemStruct as the caller passed it
    methods_type,\* build_py_class: PyClassMethodsType
    fidx,        \* build_py_class: position of the `for field in fields` loop
    descriptors, \* build_py_class: Vec<(Field, Vec<FnType>)>
    lastcall,    \* the latest parse_descriptors call: field before, after, result
    out,         \* the syn::Result<TokenStream> of build_py_class
    pc,          \* macro expansion: the step about to run
    FREELIST,    \* run time: the `static mut FREELIST` pointer
    TYPE_OBJECT, \* run time: the `static TYPE_OBJECT: LazyStaticType` cell
    heap,        \* run time: the FreeList / type objects constructed so far
    gil,         \* run time: the thread holding the GIL (owner of `Python`)
    tpc,         \* run time: each thread's position
    tlocal,      \* run time: each thread's freshly boxed pointer
    seen,        \* run time: what each call returned, per thread
    calls,       \* run time: calls each thread has still to make
    implemented, \* enumeration: the collector categories that have entries
    walk,        \* enumeration: which enumeration runs, and its chain position
    visited      \* enumeration: the entries handed to the visitor, in order

parseVars == <<vars, idx, slf, res>>
buildVars == <<class, decl, methods_type, fidx, descriptors, lastcall, out>>
poolVars  == <<FREELIST, TYPE_OBJECT, heap, gil, tpc, tlocal, seen, calls>>
enumVars  == <<implemented, walk, visited>>
allVars   == <<parseVars, buildVars, pc, poolVars, enumVars>>

(***************************************************************************)
(* Bounds of the model.                                                    *)
(***************************************************************************)
MaxArgs == 2        \* longest general argument list
MaxFields == 2      \* most members of a declaration
MaxAttrs == 2       \* most attributes of a declaration, over all members
NumThreads == 2     \* run-time threads
MaxCalls == 2       \* calls each thread makes
EntriesPer == 2     \* entries an implemented category contributes

(***************************************************************************)
(* Option and Result.                                                      *)
(***************************************************************************)
None == [some |-> FALSE]
Some(v) == [some |-> TRUE, val |-> v]
Ok(v) == [ok |-> TRUE, val |-> v]
\* A diagnostic: the message, the value formatted into it (if any) and the
\* tokens its span covers.
ErrFmt(m, arg, at) == [ok |-> FALSE, msg |-> m, arg |-> arg, at |-> at]
Err(m, at) == ErrFmt(m, "", at)
Pending == [ok |-> FALSE, msg |-> "pending", arg |-> "", at |-> None]

Range(s) == {s[k] : k \in DOMAIN s}
SeqsUpTo(S, n) == UNION {[1..k -> S] : k \in 0..n}

(***************************************************************************)
(* syn::Expr: the shapes add_expr and add_assign distinguish.              *)
(***************************************************************************)
Path(segs) == [kind |-> "Path", segs |-> segs]
LitStr(toks) == [kind |-> "Lit", lit |-> "Str", toks |-> toks]
LitInt(n) == [kind |-> "Lit", lit |-> "Int", int |-> n]
Binary(l, op, r) == [kind |-> "Binary", l |-> l, op |-> op, r |-> r]
Assign(l, r) == [kind |-> "Assign", left |-> l, right |-> r]

\* A string literal's value is held as the tokens its text lexes to; these are
\* the tokens that are identifiers ("struct", a keyword, is none).
IdentToks == {"Foo", "Bar", "m", "n"}

Flags == {"gc", "weakref", "subclass", "dict", "unsendable"}
Keys == {"freelist", "name", "extends", "module"}

PyAnyPath == <<"pyo3", "PyAny">>

FlagArgs == {Path(<<f>>) : f \in Flags}
FreelistArgs ==
    { Assign(Path(<<"freelist">>), LitInt(8)),
      Assign(Path(<<"freelist">>), Binary(LitInt(8), "*", LitInt(64))) }
NameArgs ==
    { Assign(Path(<<"name">>), LitStr(<<"Foo">>)),
      Assign(Path(<<"name">>), LitStr(<<"Bar">>)),
      Assign(Path(<<"name">>), LitStr(<<"Foo", "Bar">>)),
      Assign(Path(<<"name">>), LitStr(<<"struct">>)),
      Assign(Path(<<"name">>), LitStr(<<>>)),
      Assign(Path(<<"name">>), Path(<<"Foo">>)),
      Assign(Path(<<"name">>), Path(<<"m", "Foo">>)),
      Assign(Path(<<"name">>), LitInt(8)) }
ExtendsArgs ==
    { Assign(Path(<<"extends">>), Path(<<"Base">>)),
      Assign(Path(<<"extends">>), Path(<<"m", "Base">>)),
      Assign(Path(<<"extends">>), Path(PyAnyPath)),
      Assign(Path(<<"extends">>), LitStr(<<"Base">>)) }
ModuleArgs ==
    { Assign(Path(<<"module">>), LitStr(<<"m">>)),
      Assign(Path(<<"module">>), LitStr(<<"n">>)),
      Assign(Path(<<"module">>), Path(<<"m">>)) }
BadArgs ==
    { Path(<<"foo">>),
      Path(<<"m", "gc">>),
      LitInt(8),
      Assign(Path(<<"bar">>), LitInt(8)),
      Assign(Path(<<"m", "name">>), LitStr(<<"Foo">>)),
      Assign(LitStr(<<"name">>), LitStr(<<"Foo">>)) }

ArgUniverse ==
    FlagArgs \cup FreelistArgs \cup NameArgs \cup ExtendsArgs \cup ModuleArgs
        \cup BadArgs

\* Every ordering of every subset of the five flags.
FlagOrderings ==
    {s \in SeqsUpTo(FlagArgs, Cardinality(Flags)) :
        \A a, b \in DOMAIN s : a # b => s[a] # s[b]}

ArgLists == SeqsUpTo(ArgUniverse, MaxArgs) \cup FlagOrderings

(***************************************************************************)
(* PyClassArgs.                                                            *)
(***************************************************************************)
PyClassArgs_default ==
    [ freelist |-> None,
      name |-> None,
      module |-> None,
      base |-> [path |-> PyAnyPath, qself |-> None],
      has_dict |-> FALSE,
      has_weaklist |-> FALSE,
      is_gc |-> FALSE,
      is_basetype |-> FALSE,
      has_extends |-> FALSE,
      has_unsendable |-> FALSE ]

\* LitStr::parse::<syn::Ident>: the literal's text must lex to exactly one
\* token, an identifier that is not a keyword.
LitStr_parse_Ident(lit) ==
    IF Len(lit.toks) = 1 /\ lit.toks[1] \in IdentToks
    THEN Some(lit.toks[1])
    ELSE None

\* add_path with two arms' assignments exchanged.
add_path_swapped(self, exp) ==
    LET flag == exp.segs[1] IN
    CASE flag = "gc" -> Ok([self EXCEPT !.is_gc = TRUE])
      [] flag = "weakref" -> Ok([self EXCEPT !.has_dict = TRUE])
      [] flag = "subclass" -> Ok([self EXCEPT !.is_basetype = TRUE])
      [] flag = "dict" -> Ok([self EXCEPT !.has_weaklist = TRUE])
      [] flag = "unsendable" -> Ok([self EXCEPT !.has_unsendable = TRUE])
      [] OTHER -> Err("expected one of gc/weakref/subclass/dict/unsendable", exp)

add_path(self, exp) ==
    LET flag == exp.segs[1] IN
    CASE flag = "gc" -> Ok([self EXCEPT !.is_gc = TRUE])
      [] flag = "weakref" -> Ok([self EXCEPT !.has_weaklist = TRUE])
      [] flag = "subclass" -> Ok([self EXCEPT !.is_basetype = TRUE])
      [] flag = "dict" -> Ok([self EXCEPT !.has_dict = TRUE])
      [] flag = "unsendable" -> Ok([self EXCEPT !.has_unsendable = TRUE])
      [] OTHER -> Err("expected one of gc/weakref/subclass/dict/unsendable", exp)

add_assign_name(self, right) ==
    CASE right.kind = "Lit" /\ right.lit = "Str" ->
            LET id == LitStr_parse_Ident(right) IN
            IF id.some
            THEN Ok([self EXCEPT !.name = Some(id.val)])
            ELSE Err("expected a single identifier in double-quotes", right)
      [] right.kind = "Path" /\ Len(right.segs) = 1 ->
            ErrFmt("since PyO3 0.13 a pyclass name should be in double-quotes, e.g. \"{}\"",
                   right.segs[1], right)
      [] OTHER -> Err("expected type name (e.g. \"Name\")", right)

\* add_assign's extends arm building the record afresh instead of updating it.
add_assign_extends_fresh(self, right) ==
    IF right.kind = "Path"
    THEN Ok([PyClassArgs_default EXCEPT !.base = [path |-> right.segs, qself |-> None],
                                        !.has_extends = TRUE])
    ELSE Err("expected type path (e.g., my_mod::BaseClass)", right)

\* add_assign's extends arm keeping the first base it was given.
add_assign_extends_first(self, right) ==
    IF right.kind = "Path"
    THEN Ok([self EXCEPT !.base = IF self.has_extends THEN self.base
                                  ELSE [path |-> right.segs, qself |-> None],
                         !.has_extends = TRUE])
    ELSE Err("expected type path (e.g., my_mod::BaseClass)", right)

add_assign_extends(self, right) ==
    IF right.kind = "Path"
    THEN Ok([self EXCEPT !.base = [path |-> right.segs, qself |-> None],
                         !.has_extends = TRUE])
    ELSE Err("expected type path (e.g., my_mod::BaseClass)", right)

\* add_assign's module arm refusing a second module.
add_assign_module_once(self, right) ==
    IF right.kind = "Lit" /\ right.lit = "Str"
    THEN IF self.module.some
         THEN Err("module given twice", right)
         ELSE Ok([self EXCEPT !.module = Some(right)])
    ELSE Err("expected string literal (e.g., \"my_mod\")", right)

add_assign_module(self, right) ==
    IF right.kind = "Lit" /\ right.lit = "Str"
    THEN Ok([self EXCEPT !.module = Some(right)])
    ELSE Err("expected string literal (e.g., \"my_mod\")", right)

add_assign(self, assign) ==
    LET left == assign.left
        right == assign.right
    IN
    IF ~(left.kind = "Path" /\ Len(left.segs) = 1)
    THEN Err("failed to parse arguments", assign)
    ELSE LET key == left.segs[1] IN
         CASE key = "freelist" -> Ok([self EXCEPT !.freelist = Some(right)])
           [] key = "name" -> add_assign_name(self, right)
           [] key = "extends" -> add_assign_extends(self, right)
           [] key = "module" -> add_assign_module(self, right)
           [] OTHER -> Err("expected one of freelist/name/extends/module", left)

IsFlagShape(expr) == expr.kind = "Path" /\ Len(expr.segs) = 1
IsAssignShape(expr) == expr.kind = "Assign"

add_expr(self, expr) ==
    CASE IsFlagShape(expr) -> add_path(self, expr)
      [] IsAssignShape(expr) -> add_assign(self, expr)
      [] OTHER -> Err("failed to parse arguments", expr)

\* PyClassArgs::parse as a function of the argument list: the loop stops at
\* the first element add_expr rejects.
RECURSIVE parse_from(_, _, _)
parse_from(self, list, k) ==
    IF k > Len(list)
    THEN Ok(self)
    ELSE LET r == add_expr(self, list[k]) IN
         IF r.ok THEN parse_from(r.val, list, k + 1) ELSE r

parse(list) == parse_from(PyClassArgs_default, list, 1)

(***************************************************************************)
(* syn::ItemStruct, syn::Field, syn::Attribute.                            *)
(***************************************************************************)
\* An attribute holds its path and what Attribute::parse_meta makes of it:
\* a Meta::Path, Meta::List (with its nested items) or Meta::NameValue, or an
\* error when its tokens are no meta item at all.
MetaItem(p) == [kind |-> "Meta", path |-> p]
MetaLit(v) == [kind |-> "Lit", path |-> v]
Attr(p, meta, nested, val) == [path |-> p, meta |-> meta, nested |-> nested, val |-> val]

AttrUniverse ==
    { Attr("pyo3", "List", <<MetaItem("get")>>, ""),
      Attr("pyo3", "List", <<MetaItem("set")>>, ""),
      Attr("pyo3", "List", <<MetaItem("get"), MetaItem("set")>>, ""),
      Attr("pyo3", "List", <<MetaLit("x"), MetaItem("get")>>, ""),
      Attr("pyo3", "List", <<MetaItem("get"), MetaItem("foo")>>, ""),
      Attr("pyo3", "Err", <<>>, ""),
      Attr("pyo3", "Path", <<>>, ""),
      Attr("serde", "List", <<MetaItem("skip")>>, ""),
      Attr("doc", "NameValue", <<>>, "d") }

\* The attribute lists of k members that hold at most n attributes together.
RECURSIVE FieldAttrLists(_, _)
FieldAttrLists(k, n) ==
    IF k = 0
    THEN {<<>>}
    ELSE UNION { {<<a>> \o rest : rest \in FieldAttrLists(k - 1, n - Len(a))} :
                 a \in SeqsUpTo(AttrUniverse, n) }

\* syn::Fields::Named gives every member an ident, Fields::Unnamed none.
MakeFields(shape, attrlists) ==
    [k \in DOMAIN attrlists |->
        [ident |-> IF shape = "Named" THEN Some(k) ELSE None,
         attrs |-> attrlists[k]]]

ItemStruct(ident, generics, utils_ok, shape, fields) ==
    [ident |-> ident, generics |-> generics, utils_ok |-> utils_ok,
     shape |-> shape, fields |-> fields]

UnitStruct(ident) == ItemStruct(ident, FALSE, TRUE, "Unit", <<>>)

(***************************************************************************)
(* parse_descriptors.                                                      *)
(***************************************************************************)
Getter == [fn |-> "Getter", mutable |-> FALSE]
Setter == [fn |-> "Setter", mutable |-> TRUE]

IsPyo3List(attr) == attr.meta = "List" /\ attr.path = "pyo3"

\* The inner loop over list.nested: Ok(descs) or the first bail.
RECURSIVE scan_nested(_, _, _)
scan_nested(nested, k, descs) ==
    IF k > Len(nested)
    THEN Ok(descs)
    ELSE LET meta == nested[k] IN
         IF meta.kind = "Meta"
         THEN CASE meta.path = "get" -> scan_nested(nested, k + 1, Append(descs, Getter))
                [] meta.path = "set" -> scan_nested(nested, k + 1, Append(descs, Setter))
                [] OTHER -> Err("only get and set are supported", meta)
         ELSE scan_nested(nested, k + 1, descs)

\* What a bail leaves in item.attrs: the loop owns `item.attrs.drain(..)`,
\* whose drop removes every element not yet yielded, and the assignment
\* `item.attrs = new_attrs` is never reached.
AttrsAfterBail(attrs, new_attrs) == <<>>

\* The loop over item.attrs.drain(..): the member's attributes afterwards and
\* the result.
RECURSIVE drain_attrs(_, _, _, _)
drain_attrs(attrs, k, descs, new_attrs) ==
    IF k > Len(attrs)
    THEN [attrs |-> new_attrs, result |-> Ok(descs)]
    ELSE LET attr == attrs[k] IN
         IF IsPyo3List(attr)
         THEN LET r == scan_nested(attr.nested, 1, descs) IN
              IF r.ok
              THEN drain_attrs(attrs, k + 1, r.val, new_attrs)
              ELSE [attrs |-> AttrsAfterBail(attrs, new_attrs), result |-> r]
         ELSE drain_attrs(attrs, k + 1, descs, Append(new_attrs, attr))

parse_descriptors(item) ==
    LET r == drain_attrs(item.attrs, 1, <<>>, <<>>) IN
    [item |-> [item EXCEPT !.attrs = r.attrs], result |-> r.result]

(***************************************************************************)
(* impl_descriptors, impl_class: the generated artifact.                   *)
(***************************************************************************)
\* utils::get_doc on a member: the text of its doc attributes (empty when it
\* has none).
get_doc(attrs) == SelectSeq(attrs, LAMBDA a : a.path = "doc" /\ a.meta = "NameValue")

\* impl_descriptors binding a member without an ident by its position.
impl_descriptor_positional(field, desc) ==
    Ok([def |-> desc.fn, self_mutable |-> desc.mutable,
        property |-> IF field.ident.some THEN field.ident.val ELSE "0",
        doc |-> get_doc(field.attrs)])

\* One accessor of one member: the binding, or the tuple-field failure.
impl_descriptor(field, desc) ==
    IF ~field.ident.some
    THEN Err("#[pyo3(get, set)] is not supported on tuple struct fields", field)
    ELSE Ok([def |-> desc.fn, self_mutable |-> desc.mutable,
             property |-> field.ident.val, doc |-> get_doc(field.attrs)])

\* flat_map over (field, fns), collected into one syn::Result: the bindings in
\* order, or the first failure.
RECURSIVE collect_descriptors(_, _, _, _)
collect_descriptors(descs, d, f, acc) ==
    IF d > Len(descs)
    THEN Ok(acc)
    ELSE IF f > Len(descs[d][2])
         THEN collect_descriptors(descs, d + 1, 1, acc)
         ELSE LET r == impl_descriptor(descs[d][1], descs[d][2][f]) IN
              IF r.ok
              THEN collect_descriptors(descs, d, f + 1, Append(acc, r.val))
              ELSE r

impl_descriptors(descs) == collect_descriptors(descs, 1, 1, <<>>)

\* get_class_python_name ignoring the override.
get_class_python_name_cls(cls, attr) == cls

get_class_python_name(cls, attr) == IF attr.name.some THEN attr.name.val ELSE cls

weakref_slot(attr) ==
    IF attr.has_weaklist THEN "PyClassWeakRefSlot"
    ELSE IF attr.has_extends THEN "BaseType::WeakRef"
    ELSE "PyClassDummySlot"

\* The dict slot resolved from the weak-reference flag.
dict_slot_weaklist(attr) ==
    IF attr.has_weaklist THEN "PyClassDictSlot"
    ELSE IF attr.has_extends THEN "BaseType::Dict"
    ELSE "PyClassDummySlot"

dict_slot(attr) ==
    IF attr.has_dict THEN "PyClassDictSlot"
    ELSE IF attr.has_extends THEN "BaseType::Dict"
    ELSE "PyClassDummySlot"

\* The guard chosen with the base tested before the unsendable flag.
thread_checker_base_first(attr) ==
    IF attr.has_extends THEN "ThreadCheckerInherited"
    ELSE IF attr.has_unsendable THEN "ThreadCheckerImpl"
    ELSE "ThreadCheckerStub"

thread_checker(attr) ==
    IF attr.has_unsendable THEN "ThreadCheckerImpl"
    ELSE IF attr.has_extends THEN "ThreadCheckerInherited"
    ELSE "ThreadCheckerStub"

alloc_extra(attr) ==
    IF attr.freelist.some
    THEN [impl |-> "PyClassWithFreeList", capacity |-> attr.freelist]
    ELSE [impl |-> "PyClassAlloc", capacity |-> None]

impl_methods_inventory(cls) == [prefix |-> "Pyo3MethodsInventoryFor", cls |-> cls]

impl_class(cls, attr, doc, descs, mt) ==
    LET desc_impls == IF descs # <<>> THEN impl_descriptors(descs) ELSE Ok(<<>>) IN
    IF ~desc_impls.ok
    THEN desc_impls
    ELSE Ok([ NAME |-> get_class_python_name(cls, attr),
              MODULE_NAME |-> attr.module,
              DOC |-> doc,
              IS_GC |-> attr.is_gc,
              IS_BASETYPE |-> attr.is_basetype,
              IS_SUBCLASS |-> attr.has_extends,
              BaseType |-> attr.base,
              BaseNativeType |-> IF attr.has_extends
                                 THEN "BaseType::BaseNativeType" ELSE "pyo3::PyAny",
              Dict |-> dict_slot(attr),
              WeakRef |-> weakref_slot(attr),
              ThreadChecker |-> thread_checker(attr),
              into_py |-> ~attr.has_extends,
              inventory |-> IF mt = "Inventory"
                            THEN Some(impl_methods_inventory(cls)) ELSE None,
              iter_py_methods |-> IF mt = "Inventory"
                                  THEN "inventory::iter" ELSE "collector.py_methods",
              descriptors |-> desc_impls.val,
              extra |-> alloc_extra(attr),
              gc_impl |-> IF attr.is_gc
                          THEN Some([prefix |-> "__assertion_closure_", cls |-> cls])
                          ELSE None ])

(***************************************************************************)
(* Macro expansion as a state machine: PyClassArgs::parse, then            *)
(* build_py_class over the declaration.                                    *)
(***************************************************************************)
NoCall == [before |-> None, after |-> None, result |-> Pending]

\* `slf.add_expr(&expr)?` accepted the element: the loop goes on.
AddExprOk ==
    /\ pc = "parse"
    /\ idx <= Len(vars)
    /\ LET r == add_expr(slf, vars[idx]) IN
         /\ r.ok
         /\ slf' = r.val
    /\ idx' = idx + 1
    /\ UNCHANGED <<vars, res, buildVars, pc, poolVars, enumVars>>

\* `slf.add_expr(&expr)?` failed: parse returns the diagnostic.
AddExprErr ==
    /\ pc = "parse"
    /\ idx <= Len(vars)
    /\ LET r == add_expr(slf, vars[idx]) IN
         /\ ~r.ok
         /\ res' = r
    /\ pc' = "rejected"
    /\ UNCHANGED <<vars, idx, slf, buildVars, poolVars, enumVars>>

\* The list is exhausted: `Ok(slf)`; the record goes to build_py_class.
ParseReturn ==
    /\ pc = "parse"
    /\ idx > Len(vars)
    /\ res' = Ok(slf)
    /\ pc' = "build"
    /\ UNCHANGED <<vars, idx, slf, buildVars, poolVars, enumVars>>

\* build_py_class up to the match on class.fields: the text signature and the
\* documentation are read, and generic parameters are refused.
BuildPyClass ==
    /\ pc = "build"
    /\ IF ~class.utils_ok
       THEN /\ out' = Err("utils", class.ident)
            /\ pc' = "done"
       ELSE IF class.generics
       THEN /\ out' = Err("#[pyclass] cannot have generic parameters", class.ident)
            /\ pc' = "done"
       ELSE /\ out' = out
            /\ pc' = "fields"
    /\ UNCHANGED <<parseVars, class, decl, methods_type, fidx, descriptors, lastcall,
                   poolVars, enumVars>>

\* One turn of `for field in fields.iter_mut()`: parse_descriptors(field)?,
\* and the push of (field.clone(), field_descs) when there are any.
ParseDescriptors ==
    /\ pc = "fields"
    /\ fidx <= Len(class.fields)
    /\ LET field == class.fields[fidx]
           r == parse_descriptors(field)
       IN
       /\ class' = [class EXCEPT !.fields[fidx] = r.item]
       /\ lastcall' = [before |-> Some(field), after |-> Some(r.item),
                       result |-> r.result]
       /\ IF r.result.ok
          THEN /\ descriptors' = IF r.result.val # <<>>
                                 THEN Append(descriptors, <<r.item, r.result.val>>)
                                 ELSE descriptors
               /\ fidx' = fidx + 1
               /\ UNCHANGED <<out, pc>>
          ELSE /\ out' = r.result
               /\ pc' = "done"
               /\ UNCHANGED <<descriptors, fidx>>
    /\ UNCHANGED <<parseVars, decl, methods_type, poolVars, enumVars>>

\* `impl_class(&class.ident, &attr, doc, descriptors, methods_type)`.
ImplClass ==
    /\ pc = "fields"
    /\ fidx > Len(class.fields)
    /\ out' = impl_class(class.ident, res.val, "doc", descriptors, methods_type)
    /\ pc' = "done"
    /\ UNCHANGED <<parseVars, class, decl, methods_type, fidx, descriptors, lastcall,
                   poolVars, enumVars>>

NextExpand ==
    \/ AddExprOk
    \/ AddExprErr
    \/ ParseReturn
    \/ BuildPyClass
    \/ ParseDescriptors
    \/ ImplClass

NextBuild ==
    \/ BuildPyClass
    \/ ParseDescriptors
    \/ ImplClass

(***************************************************************************)
(* Initial states.                                                         *)
(***************************************************************************)
NullPtr == 0
Threads == 1..NumThreads

PoolIdle ==
    /\ FREELIST = NullPtr
    /\ TYPE_OBJECT = NullPtr
    /\ heap = {}
    /\ gil = 0
    /\ tpc = [t \in Threads |-> "idle"]
    /\ tlocal = [t \in Threads |-> NullPtr]
    /\ seen = [t \in Threads |-> <<>>]
    /\ calls = [t \in Threads |-> 0]

EnumIdle ==
    /\ implemented = {}
    /\ walk = [fn |-> "none", pos |-> 0, k |-> 0]
    /\ visited = <<>>

ExpandIdle ==
    /\ vars = <<>>
    /\ idx = 1
    /\ slf = PyClassArgs_default
    /\ res = Pending
    /\ class = UnitStruct("MyClass")
    /\ decl = class
    /\ methods_type = "Specialization"
    /\ fidx = 1
    /\ descriptors = <<>>
    /\ lastcall = NoCall
    /\ out = Pending
    /\ pc = "off"

MethodsTypes == {"Specialization", "Inventory"}

GetSetAttr == Attr("pyo3", "List", <<MetaItem("get"), MetaItem("set")>>, "")
DocAttr == Attr("doc", "NameValue", <<>>, "d")

\* A few declarations: a unit struct, a struct with an exposed named member,
\* and a tuple struct with plain members.
SmallClasses ==
    { UnitStruct("MyClass"),
      ItemStruct("Point", FALSE, TRUE, "Named",
                 MakeFields("Named", <<(<<DocAttr, GetSetAttr>>)>>)),
      ItemStruct("Pair", FALSE, TRUE, "Unnamed",
                 MakeFields("Unnamed", <<(<<DocAttr>>), <<>> >>)) }

\* Declarations build_py_class refuses before it looks at the members.
RefusedClasses ==
    { ItemStruct("Gen", TRUE, TRUE, "Unit", <<>>),
      ItemStruct("BadSig", FALSE, FALSE, "Unit", <<>>) }

\* Every declaration within the bounds: Named or Unnamed members, at most
\* MaxFields of them, carrying at most MaxAttrs attributes together.
BoundedClasses ==
    { ItemStruct("MyClass", FALSE, TRUE, shape, MakeFields(shape, al)) :
        shape \in {"Named", "Unnamed"},
        al \in UNION {FieldAttrLists(k, MaxAttrs) : k \in 0..MaxFields} }

\* Every record PyClassArgs::parse can return.
ConfigRecords ==
    { [ freelist |-> fl, name |-> nm, module |-> md, base |-> ext.base,
        has_dict |-> d, has_weaklist |-> w, is_gc |-> g, is_basetype |-> b,
        has_extends |-> ext.has_extends, has_unsendable |-> u ] :
        fl \in {None, Some(LitInt(8))},
        nm \in {None, Some("Foo")},
        md \in {None, Some(LitStr(<<"m">>))},
        d \in BOOLEAN, w \in BOOLEAN, g \in BOOLEAN, b \in BOOLEAN, u \in BOOLEAN,
        ext \in { [has_extends |-> FALSE, base |-> PyClassArgs_default.base],
                  [has_extends |-> TRUE, base |-> PyClassArgs_default.base],
                  [has_extends |-> TRUE, base |-> [path |-> <<"m", "Base">>, qself |-> None]] } }

\* The attribute macro is given an argument list and a declaration.
InitParse ==
    /\ vars \in ArgLists
    /\ idx = 1
    /\ slf = PyClassArgs_default
    /\ res = Pending
    /\ class \in SmallClasses
    /\ decl = class
    /\ methods_type \in MethodsTypes
    /\ fidx = 1
    /\ descriptors = <<>>
    /\ lastcall = NoCall
    /\ out = Pending
    /\ pc = "parse"
    /\ PoolIdle
    /\ EnumIdle

\* build_py_class is called with a parsed record and a declaration.
InitBuild(attrs, classes) ==
    /\ vars = <<>>
    /\ idx = 1
    /\ slf \in attrs
    /\ res = Ok(slf)
    /\ class \in classes
    /\ decl = class
    /\ methods_type \in MethodsTypes
    /\ fidx = 1
    /\ descriptors = <<>>
    /\ lastcall = NoCall
    /\ out = Pending
    /\ pc = "build"
    /\ PoolIdle
    /\ EnumIdle

InitGen == InitBuild(ConfigRecords, SmallClasses \cup RefusedClasses)
InitFields == InitBuild({PyClassArgs_default}, BoundedClasses)

SpecParse == InitParse /\ [][NextExpand]_allVars
SpecGen == InitGen /\ [][NextBuild]_allVars
SpecFields == InitFields /\ [][NextBuild]_allVars

(***************************************************************************)
(* Properties of PyClassArgs::parse.                                       *)
(***************************************************************************)
FlagArg(f) == Path(<<f>>)
KeyOf(e) ==
    IF e.kind = "Assign" /\ e.left.kind = "Path" /\ Len(e.left.segs) = 1
    THEN e.left.segs[1]
    ELSE "-"

\* The elements the loop has accepted so far; all of them once parse returned Ok.
Accepted == SubSeq(vars, 1, idx - 1)
Returned == pc \notin {"parse", "off"}
ReturnedOk == Returned /\ res.ok

\* The last element of list assigning key (list has one).
LastOf(list, key) ==
    LET k == CHOOSE k \in DOMAIN list :
                /\ KeyOf(list[k]) = key
                /\ \A j \in DOMAIN list : KeyOf(list[j]) = key => j <= k
    IN list[k]
HasKey(list, key) == \E k \in DOMAIN list : KeyOf(list[k]) = key

IsFlagOrdering(list) ==
    /\ \A k \in DOMAIN list : list[k] \in FlagArgs
    /\ \A a, b \in DOMAIN list : a # b => list[a] # list[b]

PermutationsOf(list) ==
    {[k \in DOMAIN list |-> list[f[k]]] : f \in Permutations(DOMAIN list)}

\* C1: for every subset of the five flags gc/weakref/subclass/dict/unsendable,
\* given in any order, parse succeeds and the record has exactly the booleans
\* of the listed flags set, has_extends false, freelist, name and module
\* absent and the default base.
C1_FlagSubsetsParse ==
    (Returned /\ IsFlagOrdering(vars)) =>
        /\ res.ok
        /\ res.val.is_gc = (FlagArg("gc") \in Range(vars))
        /\ res.val.has_weaklist = (FlagArg("weakref") \in Range(vars))
        /\ res.val.is_basetype = (FlagArg("subclass") \in Range(vars))
        /\ res.val.has_dict = (FlagArg("dict") \in Range(vars))
        /\ res.val.has_unsendable = (FlagArg("unsendable") \in Range(vars))
        /\ res.val.has_extends = FALSE
        /\ res.val.freelist = None
        /\ res.val.name = None
        /\ res.val.module = None
        /\ res.val.base = [path |-> PyAnyPath, qself |-> None]

\* parse has returned Ok for all five flags, given in reverse alphabetical
\* order.
C1_Witness ==
    /\ ReturnedOk
    /\ vars = <<FlagArg("weakref"), FlagArg("unsendable"), FlagArg("subclass"),
                FlagArg("gc"), FlagArg("dict")>>
    /\ res.val.has_weaklist /\ res.val.has_dict

\* The diagnostic of the first element of list that add_expr rejects (whether
\* add_expr accepts an element does not depend on the record built so far).
Valid(e) == add_expr(PyClassArgs_default, e).ok
FirstRejected(list) ==
    LET k == CHOOSE k \in DOMAIN list :
                /\ ~Valid(list[k])
                /\ \A j \in DOMAIN list : ~Valid(list[j]) => k <= j
    IN add_expr(PyClassArgs_default, list[k])

\* No key is assigned two different values.
NoConflictingKeys(list) ==
    \A a, b \in DOMAIN list :
        (KeyOf(list[a]) \in Keys /\ KeyOf(list[a]) = KeyOf(list[b])) => list[a] = list[b]

\* C6 as stated: parse gives the same outcome (an equal record, or the same
\* diagnostic) on an argument list and on every permutation of it.
C6_OrderIndependent ==
    Returned => \A p \in PermutationsOf(vars) : parse(p) = res

\* C6 as amended: a list and every permutation of it both succeed or both
\* fail; when they succeed and no key is assigned two different values the
\* records are equal; when they fail each reports the diagnostic of the first
\* element, in its own order, that add_expr rejects.
C6_OrderIndependentAmended ==
    Returned => \A p \in PermutationsOf(vars) :
        /\ parse(p).ok = res.ok
        /\ (res.ok /\ NoConflictingKeys(vars)) => parse(p) = res
        /\ ~res.ok => /\ res = FirstRejected(vars)
                      /\ parse(p) = FirstRejected(p)

\* parse has returned Ok for a flag followed by an extends assignment, a list
\* whose other order is a different list.
C6_Witness ==
    /\ ReturnedOk
    /\ vars = <<FlagArg("dict"), Assign(Path(<<"extends">>), Path(<<"m", "Base">>))>>
    /\ res.val.has_dict /\ res.val.has_extends

\* The identifier a name assignment's right-hand side holds.
NameOf(e) == LitStr_parse_Ident(e.right).val
IsBareName(e) ==
    KeyOf(e) = "name" /\ e.right.kind = "Path" /\ Len(e.right.segs) = 1

\* C7: with name = "Foo" accepted the artifact's NAME is that identifier and
\* not the declaration's; with no name key NAME is the declaration's
\* identifier; name = Foo (a bare identifier) makes parse fail, and when it is
\* the element parse stops at, the diagnostic is the should-be-in-double-quotes
\* one naming Foo, not the generic ones.
C7_NameOverride ==
    /\ (pc = "done" /\ out.ok) =>
          out.val.NAME = IF HasKey(vars, "name")
                         THEN NameOf(LastOf(vars, "name"))
                         ELSE class.ident
    /\ (Returned /\ \E k \in DOMAIN vars : IsBareName(vars[k])) => ~res.ok
    /\ (pc = "rejected" /\ IsBareName(vars[idx])) =>
          /\ res.msg = "since PyO3 0.13 a pyclass name should be in double-quotes, e.g. \"{}\""
          /\ res.arg = vars[idx].right.segs[1]
          /\ res.msg # "expected type name (e.g. \"Name\")"
          /\ res.msg # "failed to parse arguments"

\* The artifact of a declaration given name = "Foo" alone is out, named Foo.
C7_Witness ==
    /\ pc = "done" /\ out.ok
    /\ vars = <<Assign(Path(<<"name">>), LitStr(<<"Foo">>))>>
    /\ class.ident # "Foo"
    /\ out.val.NAME = "Foo"

IsExtends(e) == KeyOf(e) = "extends" /\ e.right.kind = "Path"

\* C8: at every point of the loop, and in the record parse returns,
\* has_extends is true exactly when an extends = <path> assignment has been
\* accepted, base is then the path of the last of them, and otherwise base is
\* pyo3::PyAny: no other element changes either field.
C8_ExtendsSetsBase ==
    (pc # "off" /\ ~(Returned /\ ~res.ok)) =>
        LET got == IF Returned THEN res.val ELSE slf IN
        /\ got.has_extends = (\E k \in DOMAIN Accepted : IsExtends(Accepted[k]))
        /\ got.base = IF HasKey(Accepted, "extends")
                      THEN [path |-> LastOf(Accepted, "extends").right.segs, qself |-> None]
                      ELSE [path |-> PyAnyPath, qself |-> None]

\* parse has returned Ok for two extends assignments; base is the second's.
C8_Witness ==
    /\ ReturnedOk
    /\ vars = <<Assign(Path(<<"extends">>), Path(<<"m", "Base">>)),
                Assign(Path(<<"extends">>), Path(<<"Base">>))>>
    /\ res.val.base.path = <<"Base">>
    /\ res.val.has_extends

\* C9: a repeated flag or key is never a reason to fail: parse fails exactly
\* when some element is one add_expr rejects on its own. In the record, at
\* every point of the loop, each key holds the value of its last accepted
\* assignment (none: the default) and each flag is set exactly when it has
\* occurred, once or more.
C9_LastOccurrenceWins ==
    /\ Returned => (res.ok <=> \A k \in DOMAIN vars : Valid(vars[k]))
    /\ (pc # "off" /\ ~(Returned /\ ~res.ok)) =>
        LET got == IF Returned THEN res.val ELSE slf IN
        /\ got.freelist = IF HasKey(Accepted, "freelist")
                          THEN Some(LastOf(Accepted, "freelist").right) ELSE None
        /\ got.name = IF HasKey(Accepted, "name")
                      THEN Some(NameOf(LastOf(Accepted, "name"))) ELSE None
        /\ got.module = IF HasKey(Accepted, "module")
                        THEN Some(LastOf(Accepted, "module").right) ELSE None
        /\ got.base.path = IF HasKey(Accepted, "extends")
                           THEN LastOf(Accepted, "extends").right.segs ELSE PyAnyPath
        /\ got.is_gc = (FlagArg("gc") \in Range(Accepted))
        /\ got.has_weaklist = (FlagArg("weakref") \in Range(Accepted))
        /\ got.is_basetype = (FlagArg("subclass") \in Range(Accepted))
        /\ got.has_dict = (FlagArg("dict") \in Range(Accepted))
        /\ got.has_unsendable = (FlagArg("unsendable") \in Range(Accepted))

\* parse has returned Ok for module = "m", module = "n"; the record holds "n".
C9_Witness ==
    /\ ReturnedOk
    /\ vars = <<Assign(Path(<<"module">>), LitStr(<<"m">>)),
                Assign(Path(<<"module">>), LitStr(<<"n">>))>>
    /\ res.val.module = Some(LitStr(<<"n">>))

(***************************************************************************)
(* Properties of impl_class.                                               *)
(***************************************************************************)
Generated == pc = "done" /\ out.ok
SlotRule(own_flag, has_extends, own, inherited) ==
    CASE own_flag -> own
      [] ~own_flag /\ has_extends -> inherited
      [] OTHER -> "PyClassDummySlot"

\* C3: in every artifact the dict slot is the type's own slot when has_dict is
\* set, else the base's when has_extends is set, else the dummy slot, and the
\* weak-reference slot follows the same rule from has_weaklist: each is decided
\* by its own flag and has_extends alone.
C3_SlotResolution ==
    Generated =>
        /\ out.val.Dict = SlotRule(res.val.has_dict, res.val.has_extends,
                                   "PyClassDictSlot", "BaseType::Dict")
        /\ out.val.WeakRef = SlotRule(res.val.has_weaklist, res.val.has_extends,
                                      "PyClassWeakRefSlot", "BaseType::WeakRef")

\* An artifact of a subclass with weakref and without dict: the two slots
\* resolve differently, one own and one inherited.
C3_Witness ==
    /\ Generated
    /\ res.val.has_extends /\ res.val.has_weaklist /\ ~res.val.has_dict
    /\ out.val.WeakRef = "PyClassWeakRefSlot"
    /\ out.val.Dict = "BaseType::Dict"

\* C4: in every artifact the thread checker is ThreadCheckerImpl when
\* has_unsendable is set (has_extends or not), else ThreadCheckerInherited
\* when has_extends is set, else ThreadCheckerStub: one of the three, always.
C4_ThreadChecker ==
    Generated =>
        /\ res.val.has_unsendable => out.val.ThreadChecker = "ThreadCheckerImpl"
        /\ (~res.val.has_unsendable /\ res.val.has_extends) =>
              out.val.ThreadChecker = "ThreadCheckerInherited"
        /\ (~res.val.has_unsendable /\ ~res.val.has_extends) =>
              out.val.ThreadChecker = "ThreadCheckerStub"
        /\ out.val.ThreadChecker \in
              {"ThreadCheckerImpl", "ThreadCheckerInherited", "ThreadCheckerStub"}

\* An artifact of an unsendable subclass: the creating-thread checker.
C4_Witness ==
    /\ Generated
    /\ res.val.has_unsendable /\ res.val.has_extends
    /\ out.val.ThreadChecker = "ThreadCheckerImpl"

(***************************************************************************)
(* Properties of parse_descriptors.                                        *)
(***************************************************************************)
Called == lastcall.before.some
IsMarker(attr) == attr.path = "pyo3" /\ attr.meta = "List"
NotMarker(attr) == ~IsMarker(attr)

\* C10 as stated: after a call of parse_descriptors the member's attributes
\* are the original ones with exactly the pyo3(...) markers deleted, the others
\* in their original order.
C10_OtherAttrsKept ==
    Called =>
        lastcall.after.val.attrs = SelectSeq(lastcall.before.val.attrs, NotMarker)

TupleFieldMsg == "#[pyo3(get, set)] is not supported on tuple struct fields"

\* The get/set items of a member's pyo3(...) markers, in order, as accessors.
RECURSIVE AccessorsOf(_)
AccessorsOf(items) ==
    IF items = <<>>
    THEN <<>>
    ELSE (CASE items[1] = MetaItem("get") -> <<Getter>>
            [] items[1] = MetaItem("set") -> <<Setter>>
            [] OTHER -> <<>>) \o AccessorsOf(Tail(items))

RECURSIVE MarkerItems(_)
MarkerItems(attrs) ==
    IF attrs = <<>>
    THEN <<>>
    ELSE (IF IsMarker(attrs[1]) THEN attrs[1].nested ELSE <<>>) \o MarkerItems(Tail(attrs))

\* A positional member whose markers name get or set, and nothing that is
\* neither.
IsMarkedTupleField(field) ==
    /\ ~field.ident.some
    /\ AccessorsOf(MarkerItems(field.attrs)) # <<>>
    /\ \A k \in DOMAIN MarkerItems(field.attrs) :
          MarkerItems(field.attrs)[k].kind = "Meta" =>
              MarkerItems(field.attrs)[k].path \in {"get", "set"}

\* C11: for a positional member marked get or set, parse_descriptors returns
\* Ok with its accessors, and no call of parse_descriptors ever fails with the
\* tuple-field message; build_py_class returns an error, never an artifact,
\* for every declaration with such a member, and the tuple-field message comes
\* from impl_descriptors, after every member has been extracted.
C11_TupleFieldFailsLate ==
    /\ (Called /\ IsMarkedTupleField(lastcall.before.val)) =>
          /\ lastcall.result.ok
          /\ lastcall.result.val = AccessorsOf(MarkerItems(lastcall.before.val.attrs))
          /\ lastcall.result.val # <<>>
    /\ (Called /\ ~lastcall.result.ok) => lastcall.result.msg # TupleFieldMsg
    /\ (pc = "done" /\ \E k \in DOMAIN decl.fields : IsMarkedTupleField(decl.fields[k])) =>
          ~out.ok
    /\ (pc = "done" /\ ~out.ok /\ out.msg = TupleFieldMsg) =>
          /\ fidx > Len(class.fields)
          /\ lastcall.result.ok
          /\ \E k \in DOMAIN decl.fields : ~decl.fields[k].ident.some

\* build_py_class has failed with the tuple-field message on a tuple struct
\* whose second member is marked get, set: both accessors were extracted.
C11_Witness ==
    /\ pc = "done"
    /\ decl.shape = "Unnamed"
    /\ Len(decl.fields) = 2
    /\ decl.fields[2].attrs = <<GetSetAttr>>
    /\ IsMarkedTupleField(lastcall.before.val)
    /\ lastcall.result = Ok(<<Getter, Setter>>)
    /\ ~out.ok /\ out.msg = TupleFieldMsg

(***************************************************************************)
(* The generated get_free_list and type_object_raw at run time.  Both take *)
(* a pyo3::Python, the token of the thread that holds the interpreter      *)
(* lock: a thread calls them only between taking and releasing that lock.  *)
(***************************************************************************)
HoldsPython(t) == gil = t

NewObject(kind) == [id |-> Cardinality(heap) + 1, kind |-> kind]

\* `FREELIST.is_null()` answering true whatever the pointer is.
FreelistIsNull_always(p) == TRUE

\* `FREELIST.is_null()`
FreelistIsNull(p) == p = NullPtr

\* A thread with calls to make takes the interpreter lock.
AcquireGil(t) ==
    /\ gil = 0
    /\ tpc[t] = "idle"
    /\ calls[t] > 0
    /\ gil' = t
    /\ tpc' = [tpc EXCEPT ![t] = "python"]
    /\ UNCHANGED <<FREELIST, TYPE_OBJECT, heap, tlocal, seen, calls>>
    /\ UNCHANGED <<parseVars, buildVars, pc, enumVars>>

ReleaseGil(t) ==
    /\ HoldsPython(t)
    /\ tpc[t] = "python"
    /\ gil' = 0
    /\ tpc' = [tpc EXCEPT ![t] = "idle"]
    /\ UNCHANGED <<FREELIST, TYPE_OBJECT, heap, tlocal, seen, calls>>
    /\ UNCHANGED <<parseVars, buildVars, pc, enumVars>>

\* get_free_list: `if FREELIST.is_null()`
GetFreeList_Check(t) ==
    /\ HoldsPython(t)
    /\ tpc[t] = "python"
    /\ calls[t] > 0
    /\ tpc' = [tpc EXCEPT ![t] = IF FreelistIsNull(FREELIST) THEN "box" ELSE "deref"]
    /\ UNCHANGED <<FREELIST, TYPE_OBJECT, heap, gil, tlocal, seen, calls>>
    /\ UNCHANGED <<parseVars, buildVars, pc, enumVars>>

\* get_free_list: `Box::into_raw(Box::new(FreeList::with_capacity(..)))`
GetFreeList_Box(t) ==
    /\ HoldsPython(t)
    /\ tpc[t] = "box"
    /\ heap' = heap \cup {NewObject("FreeList")}
    /\ tlocal' = [tlocal EXCEPT ![t] = NewObject("FreeList").id]
    /\ tpc' = [tpc EXCEPT ![t] = "store"]
    /\ UNCHANGED <<FREELIST, TYPE_OBJECT, gil, seen, calls>>
    /\ UNCHANGED <<parseVars, buildVars, pc, enumVars>>

\* get_free_list: `FREELIST = ...`
GetFreeList_Store(t) ==
    /\ HoldsPython(t)
    /\ tpc[t] = "store"
    /\ FREELIST' = tlocal[t]
    /\ tpc' = [tpc EXCEPT ![t] = "deref"]
    /\ UNCHANGED <<TYPE_OBJECT, heap, gil, tlocal, seen, calls>>
    /\ UNCHANGED <<parseVars, buildVars, pc, enumVars>>

\* get_free_list: `&mut *FREELIST`, returned to the caller.
GetFreeList_Return(t) ==
    /\ HoldsPython(t)
    /\ tpc[t] = "deref"
    /\ seen' = [seen EXCEPT ![t] = Append(@, [fn |-> "get_free_list", ptr |-> FREELIST])]
    /\ calls' = [calls EXCEPT ![t] = @ - 1]
    /\ tpc' = [tpc EXCEPT ![t] = "python"]
    /\ UNCHANGED <<FREELIST, TYPE_OBJECT, heap, gil, tlocal>>
    /\ UNCHANGED <<parseVars, buildVars, pc, enumVars>>

\* type_object_raw: `TYPE_OBJECT.get_or_init::<Self>(py)`; LazyStaticType
\* builds the type object on the first call and hands back the cached one
\* afterwards.
TypeObjectRaw(t) ==
    /\ HoldsPython(t)
    /\ tpc[t] = "python"
    /\ calls[t] > 0
    /\ IF TYPE_OBJECT = NullPtr
       THEN /\ heap' = heap \cup {NewObject("PyTypeObject")}
            /\ TYPE_OBJECT' = NewObject("PyTypeObject").id
       ELSE UNCHANGED <<heap, TYPE_OBJECT>>
    /\ seen' = [seen EXCEPT ![t] = Append(@, [fn |-> "type_object_raw", ptr |-> TYPE_OBJECT'])]
    /\ calls' = [calls EXCEPT ![t] = @ - 1]
    /\ UNCHANGED <<FREELIST, gil, tpc, tlocal>>
    /\ UNCHANGED <<parseVars, buildVars, pc, enumVars>>

InitPool ==
    /\ ExpandIdle
    /\ EnumIdle
    /\ FREELIST = NullPtr
    /\ TYPE_OBJECT = NullPtr
    /\ heap = {}
    /\ gil = 0
    /\ tpc = [t \in Threads |-> "idle"]
    /\ tlocal = [t \in Threads |-> NullPtr]
    /\ seen = [t \in Threads |-> <<>>]
    /\ calls = [t \in Threads |-> MaxCalls]

NextPool ==
    \E t \in Threads :
        \/ AcquireGil(t)
        \/ ReleaseGil(t)
        \/ GetFreeList_Check(t)
        \/ GetFreeList_Box(t)
        \/ GetFreeList_Store(t)
        \/ GetFreeList_Return(t)
        \/ TypeObjectRaw(t)

SpecPool == InitPool /\ [][NextPool]_allVars

Objects(kind) == {h \in heap : h.kind = kind}
Returns(fn) == {r \in UNION {Range(seen[t]) : t \in Threads} : r.fn = fn}

MethodDefChain ==
    <<"py_methods", "py_class_descriptors", "object", "async", "context",
      "descr", "mapping", "number">>

\* for_each_proto_slot's chain with iter and gc exchanged.
ProtoSlotChain_swapped ==
    <<"object", "number", "gc", "iter", "descr", "mapping", "sequence",
      "async", "buffer">>

\* The *_protocol_slots() calls chained by for_each_proto_slot, in chain order.
ProtoSlotChain ==
    <<"object", "number", "iter", "gc", "descr", "mapping", "sequence",
      "async", "buffer">>

Categories == Range(MethodDefChain) \cup Range(ProtoSlotChain)

ChainOf(fn) == IF fn = "for_each_method_def" THEN MethodDefChain ELSE ProtoSlotChain

\* What a collector call returns: the category's entries when the type
\* implements it, the empty slice otherwise.
EntryCount(cat) == IF cat \in implemented THEN EntriesPer ELSE 0

Finished == walk.fn # "none" /\ walk.pos > Len(ChainOf(walk.fn))

\* The runtime calls one of the two enumerations with a visitor.
StartEnumeration(fn) ==
    /\ walk.fn = "none" \/ Finished
    /\ walk.fn # fn
    /\ walk' = [fn |-> fn, pos |-> 1, k |-> 1]
    /\ visited' = <<>>
    /\ UNCHANGED <<implemented, parseVars, buildVars, pc, poolVars>>

\* `.for_each(visitor)`: the next entry of the current part of the chain is
\* handed to the visitor.
VisitEntry ==
    /\ walk.fn # "none"
    /\ ~Finished
    /\ walk.k <= EntryCount(ChainOf(walk.fn)[walk.pos])
    /\ visited' = Append(visited, [cat |-> ChainOf(walk.fn)[walk.pos], n |-> walk.k])
    /\ walk' = [walk EXCEPT !.k = @ + 1]
    /\ UNCHANGED <<implemented, parseVars, buildVars, pc, poolVars>>

\* `.chain(..)`: the current part is exhausted, the next one begins.
ChainNext ==
    /\ walk.fn # "none"
    /\ ~Finished
    /\ walk.k > EntryCount(ChainOf(walk.fn)[walk.pos])
    /\ walk' = [walk EXCEPT !.pos = @ + 1, !.k = 1]
    /\ UNCHANGED <<visited, implemented, parseVars, buildVars, pc, poolVars>>

InitEnum ==
    /\ ExpandIdle
    /\ PoolIdle
    /\ implemented \in SUBSET Categories
    /\ walk = [fn |-> "none", pos |-> 0, k |-> 0]
    /\ visited = <<>>

NextEnum ==
    \/ StartEnumeration("for_each_method_def")
    \/ StartEnumeration("for_each_proto_slot")
    \/ VisitEntry
    \/ ChainNext

SpecEnum == InitEnum /\ [][NextEnum]_allVars

\* The position of a category in an order (0: not in it).
RankIn(order, cat) ==
    IF cat \in Range(order) THEN CHOOSE k \in DOMAIN order : order[k] = cat ELSE 0

\* The visitor's calls so far follow order: only categories of order, never
\* one after a later one, and a category's entries in their own order.
Follows(order) ==
    /\ \A a \in DOMAIN visited : RankIn(order, visited[a].cat) > 0
    /\ \A a, b \in DOMAIN visited :
          a < b => \/ RankIn(order, visited[a].cat) < RankIn(order, visited[b].cat)
                   \/ /\ visited[a].cat = visited[b].cat
                      /\ visited[a].n < visited[b].n

\* A finished enumeration has visited every entry of every implemented
\* category of order, and nothing of any other.
Complete(order) ==
    Finished =>
        {visited[a] : a \in DOMAIN visited} =
            {[cat |-> c, n |-> n] : c \in Range(order) \cap implemented, n \in 1..EntriesPer}

StatedOrder ==
    <<"py_methods", "py_class_descriptors", "object", "async", "context",
      "descr", "mapping", "number", "sequence", "buffer", "gc">>

\* C5 as stated: the method/slot enumeration visits in the one order own
\* methods, property accessors, object, async, context, descriptor, mapping,
\* numeric, sequence, buffer, GC.
C5_OneFixedOrder ==
    walk.fn # "none" => Follows(StatedOrder)

\* C5 as amended: for_each_method_def visits own methods, property accessors,
\* then the object, async, context, descriptor, mapping and numeric methods;
\* for_each_proto_slot visits the object, numeric, iterator, GC, descriptor,
\* mapping, sequence, async and buffer slots, in that order. Each visits all
\* entries of the implemented categories; an unimplemented one adds nothing.
C5_TwoFixedOrders ==
    /\ walk.fn = "for_each_method_def" =>
          LET order == <<"py_methods", "py_class_descriptors", "object", "async",
                         "context", "descr", "mapping", "number">>
          IN Follows(order) /\ Complete(order)
    /\ walk.fn = "for_each_proto_slot" =>
          LET order == <<"object", "number", "iter", "gc", "descr", "mapping",
                         "sequence", "async", "buffer">>
          IN Follows(order) /\ Complete(order)

\* for_each_proto_slot has finished on a type that implements the numeric,
\* GC and descriptor protocols but not the iterator and mapping ones.
C5_Witness ==
    /\ walk.fn = "for_each_proto_slot"
    /\ Finished
    /\ {"number", "gc", "descr"} \subseteq implemented
    /\ "iter" \notin implemented /\ "mapping" \notin implemented
    /\ Len(visited) >= 3 * EntriesPer

====
